---- MODULE Spec2Model ----
(***************************************************************************)
(* A model of pootle_store/models.py: the Unit record with its field-level *)
(* update / sync / merge operations, and the Store with its parse, update, *)
(* sync, mergefile and update_qualitychecks operations bracketed by the    *)
(* persisted LOCKED flag.                                                  *)
(*                                                                         *)
(* Database writes are modelled as immediately visible to every process    *)
(* (the behaviour of a backend without transactions, where the             *)
(* commit_on_success decorator has no effect): this is the setting in      *)
(* which the persisted LOCKED flag can be seen by another process at all.  *)
(***************************************************************************)
EXTENDS Integers, Sequences, FiniteSets, TLC

\* ---------------------------------------------------------------- constants

\* Store states (models.py 52-58)
LOCKED == -1
\* NEW is a reserved word of TLA+
STATE_NEW == 0
PARSED == 1
CHECKED == 2

\* Unit states (pootle_store.util, imported at models.py 48)
OBSOLETE == -100
UNTRANSLATED == 0
FUZZY == 50
TRANSLATED == 200

\* pootle_store.fields.PLURAL_PLACEHOLDER (imported at models.py 46)
PLURAL_PLACEHOLDER == "__plural__"

\* settings.AUTOSYNC: file-backed synchronisation on every unit save is off
AUTOSYNC == FALSE

\* translation_project.language.nplurals
nplurals == 2

\* translation_project.is_template_project, and is_monolingual(...): the store
\* belongs to a translation (not a template) project of a bilingual format
is_template_project == FALSE

monolingual == FALSE

\* ------------------------------------------------------------------- bounds

\* the operations begun in one behaviour (calls, row edits, file
\* replacements): by two processes, and by one
MaxCalls == 2

MaxCallsSeq == 3

\* the updates begun in one behaviour of a store parsed before
MaxCallsUpd == 2

\* the operations begun by two processes on a store that has no file
MaxCallsLock == 2

\* the calls of the process that only merges
MaxCallsMrg == 2

\* ------------------------------------------------------ multistring helpers

\* filter(None, ms.strings): some plural form holds text
Filled(strings) == \E i \in 1..Len(strings) : strings[i] # ""

\* bool(ms): a multistring is a unicode object whose value is its first form
Truthy(strings) == strings[1] # ""

\* stringcount(string)
stringcount(strings) == Len(strings)

\* [u'']*(n)
Blanks(n) == [i \in 1..n |-> ""]

\* MultiStringField's trip through the database: a target whose forms are all
\* empty is stored as '' and read back as a single empty form
ToDbTarget(strings) == IF Filled(strings) THEN strings ELSE <<"">>

\* MultiStringField's trip through the database for a source stored as
\* [text, PLURAL_PLACEHOLDER]: read back as [text] with the plural mark set
ToDbSource(strings) ==
    IF Len(strings) > 1 /\ strings[Len(strings)] = PLURAL_PLACEHOLDER
    THEN SubSeq(strings, 1, Len(strings) - 1)
    ELSE strings

\* ---------------------------------------------------------------- file units

\* A unit of the file-backed store (the external collaborator): its id, its
\* source forms and plural mark, its target forms, flags and translator note,
\* and its alternate translations [source, target] (none unless given).
FileUnit(id, source, plural, target, fuzzy, obsolete, tnote) ==
    [id |-> id, source |-> source, plural |-> plural, target |-> target,
     fuzzy |-> fuzzy, obsolete |-> obsolete, tnote |-> tnote, alt |-> {}]

\* unit.istranslated() of a file unit
FileIsTranslated(fu) == Truthy(fu.target) /\ ~fu.fuzzy /\ ~fu.obsolete

\* unit.istranslatable() of a file unit
FileIsTranslatable(fu) == ~fu.obsolete /\ fu.id # ""

\* --------------------------------------------------------------------- Unit

\* md5_f(text).hexdigest(): a digest, equal exactly for equal texts
md5(text) == <<"md5", text>>

\* a hash column never written: the empty string
NoHash == <<>>

\* ms.encode("utf-8"): the text of a multistring is that of its first form
Encoded(strings) == strings[1]

\* Unit(store=..., index=...)
NewUnit(index) ==
    [unitid |-> "", unitid_hash |-> NoHash, source |-> <<"">>, source_hash |-> NoHash,
     splural |-> FALSE, target |-> <<"">>,
     state |-> UNTRANSLATED, index |-> index, tcomment |-> "",
     tu |-> FALSE, su |-> FALSE, mtime |-> 0]

UnitIsFuzzy(u) == u.state = FUZZY

UnitIsObsolete(u) == u.state = OBSOLETE

UnitHasPlural(u) == Len(u.source) > 1 \/ u.splural

UnitMarkFuzzy(u, value) ==
    IF u.state <= OBSOLETE THEN u
    ELSE IF value THEN [u EXCEPT !.state = FUZZY]
    ELSE IF u.state <= FUZZY
         THEN [u EXCEPT !.state = IF Filled(u.target) THEN TRANSLATED ELSE UNTRANSLATED]
         ELSE u

UnitMakeObsolete(u) == IF u.state > OBSOLETE THEN [u EXCEPT !.state = OBSOLETE] ELSE u

UnitResurrect(u) ==
    IF u.state > OBSOLETE THEN u
    ELSE [u EXCEPT !.state = IF Filled(u.target) THEN TRANSLATED ELSE UNTRANSLATED]

UnitIsTranslated(u) ==
    IF u.tu /\ ~UnitIsFuzzy(u) THEN Filled(u.target) ELSE u.state >= TRANSLATED

\* _set_source / _set_target
UnitSetSource(u, value) == [u EXCEPT !.source = value, !.su = TRUE]

UnitSetTarget(u, value) == [u EXCEPT !.target = value, !.tu = TRUE]

\* Unit.save, the source related fields: the hash is that of the source now
UnitSaveSource(u) ==
    IF u.su THEN [u EXCEPT !.source_hash = md5(Encoded(u.source))] ELSE u

\* a save that writes the state as it finds it
UnitSaveKeeps(u) == u

\* Unit.save, the part before the row is written: the state follows the target
UnitSaveState(u) ==
    IF u.tu
    THEN IF Filled(u.target)
         THEN IF u.state = UNTRANSLATED THEN [u EXCEPT !.state = TRANSLATED] ELSE u
         ELSE IF u.state > FUZZY THEN [u EXCEPT !.state = UNTRANSLATED] ELSE u
    ELSE u

\* Unit.save: the row as written at time now and read back
UnitSave(u, now) ==
    LET s == UnitSaveState(UnitSaveSource(u))
    IN [s EXCEPT !.tu = FALSE, !.su = FALSE, !.mtime = now,
                 !.target = ToDbTarget(s.target),
                 !.source = ToDbSource(s.source),
                 !.splural = s.splural \/ ToDbSource(s.source) # s.source]

\* Unit.update(unit), its steps in turn, each on the record so far and
\* whether it was changed. The source, marked as plural where the file unit
\* has one form only:
UpdateSource(r, fu) ==
    IF r.unit.source # fu.source \/ Len(r.unit.source) # stringcount(fu.source)
       \/ UnitHasPlural(r.unit) # fu.plural
    THEN [unit |-> UnitSetSource(r.unit, IF fu.plural /\ Len(fu.source) = 1
                                         THEN <<fu.source[1], PLURAL_PLACEHOLDER>>
                                         ELSE fu.source),
          changed |-> TRUE]
    ELSE r

\* the target; replacing an empty target by an empty one is no change
UpdateTarget(r, fu) ==
    IF r.unit.target # fu.target \/ Len(r.unit.target) # stringcount(fu.target)
    THEN [unit |-> UnitSetTarget(r.unit, fu.target),
          changed |-> r.changed \/ Filled(fu.target) \/ Filled(r.unit.target)]
    ELSE r

\* the translator's note
UpdateNotes(r, fu) ==
    IF r.unit.tcomment # fu.tnote /\ (r.unit.tcomment # "" \/ fu.tnote # "")
    THEN [unit |-> [r.unit EXCEPT !.tcomment = fu.tnote], changed |-> TRUE]
    ELSE r

\* the fuzzy flag
UpdateFuzzy(r, fu) ==
    IF UnitIsFuzzy(r.unit) # fu.fuzzy
    THEN [unit |-> UnitMarkFuzzy(r.unit, fu.fuzzy), changed |-> TRUE]
    ELSE r

\* the obsolete flag
UpdateObsolete(r, fu) ==
    IF UnitIsObsolete(r.unit) # fu.obsolete
    THEN [unit |-> IF fu.obsolete THEN UnitMakeObsolete(r.unit) ELSE UnitResurrect(r.unit),
          changed |-> TRUE]
    ELSE r

\* the id
UpdateId(r, fu) ==
    IF r.unit.unitid # fu.id
    THEN [unit |-> [r.unit EXCEPT !.unitid = IF fu.id # "" THEN fu.id ELSE fu.source[1],
                                  !.unitid_hash = md5(IF fu.id # "" THEN fu.id
                                                      ELSE fu.source[1])],
          changed |-> TRUE]
    ELSE r

\* the alternate translations: each one counts as a change
UpdateAlttrans(r, fu) ==
    IF fu.alt # {} THEN [r EXCEPT !.changed = TRUE] ELSE r

\* Unit.update(unit): pull the file unit's content into the record
UnitUpdate(u, fu) ==
    UpdateAlttrans(UpdateId(UpdateObsolete(UpdateFuzzy(UpdateNotes(UpdateTarget(UpdateSource(
        [unit |-> u, changed |-> FALSE], fu), fu), fu), fu), fu), fu), fu)

\* the Suggestion rows Unit.update makes of the alternate translations whose
\* source is the record's: add_suggestion(target, touch=False) of each
UpdateSuggestions(u, fu) ==
    {[unitid |-> u.unitid, target |-> a.target] :
        a \in {b \in fu.alt : b.source = u.source /\ Truthy(b.target) /\ b.target # u.target}}

\* Unit.merge(unit, overwrite): reconcile an incoming unit into the record
UnitMerge(u, inc, overwrite) ==
    LET c1 == inc.tnote # "" /\ u.tcomment # inc.tnote
        u1 == IF c1 THEN [u EXCEPT !.tcomment = inc.tnote] ELSE u
    IN IF ~Truthy(inc.target) THEN [unit |-> u1, changed |-> c1]
       ELSE IF Truthy(u1.target) /\ ~overwrite THEN [unit |-> u1, changed |-> c1]
       ELSE IF UnitIsTranslated(u1) /\ ~FileIsTranslated(inc)
            THEN [unit |-> u1, changed |-> c1]
       ELSE LET u2 == UnitSetTarget(u1, inc.target)
                u3 == IF u2.source # inc.source
                      THEN UnitMarkFuzzy(u2, TRUE)
                      ELSE UnitMarkFuzzy(u2, inc.fuzzy)
            IN [unit |-> u3, changed |-> TRUE]

\* the record's target copied to the file unit as it is stored, whatever the
\* number of plural forms
UnitSyncPlain(u, fu, sg) ==
    [funit |-> [fu EXCEPT !.target = u.target], unit |-> u, changed |-> fu.target # u.target]

\* self.target.strings extended to nplurals forms
Padded(strings) ==
    IF Len(strings) < nplurals THEN strings \o Blanks(nplurals - Len(strings)) ELSE strings

\* Unit.sync(unit), its steps in turn, each on the file unit so far and whether
\* it was changed. The target; the record's own list of forms is extended in
\* place when the file unit has a plural:
SyncTarget(r, u) ==
    IF r.funit.target = u.target THEN r
    ELSE IF r.funit.plural
    THEN IF r.funit.target # Padded(u.target)
         THEN [r EXCEPT !.funit.target = Padded(u.target), !.unit.target = Padded(u.target),
                        !.changed = TRUE]
         ELSE [r EXCEPT !.unit.target = Padded(u.target)]
    ELSE [r EXCEPT !.funit.target = u.target, !.changed = TRUE]

\* the translator's note; addnote ignores an empty text
SyncNotes(r, u) ==
    IF r.funit.tnote # u.tcomment
    THEN [r EXCEPT !.funit.tnote = IF u.tcomment # "" THEN u.tcomment ELSE @,
                   !.changed = TRUE]
    ELSE r

\* the fuzzy flag
SyncFuzzy(r, u) ==
    IF r.funit.fuzzy # UnitIsFuzzy(u)
    THEN [r EXCEPT !.funit.fuzzy = UnitIsFuzzy(u), !.changed = TRUE]
    ELSE r

\* the obsolete flag
SyncObsolete(r, u) ==
    IF UnitIsObsolete(u) /\ ~r.funit.obsolete
    THEN [r EXCEPT !.funit.obsolete = TRUE, !.changed = TRUE]
    ELSE r

\* the record's suggestions (sg, the Suggestion rows) whose target the file
\* unit does not hold as an alternate translation yet are added to it
SyncAlttrans(r, u, sg) ==
    LET held == {a.target : a \in r.funit.alt}
        more == {[source |-> r.funit.source, target |-> s.target] :
                    s \in {t \in sg : t.unitid = u.unitid /\ t.target \notin held}}
    IN IF more # {}
       THEN [r EXCEPT !.funit.alt = @ \cup more, !.changed = TRUE]
       ELSE r

\* Unit.sync(unit): push the record's translation into the file unit
UnitSync(u, fu, sg) ==
    SyncAlttrans(SyncObsolete(SyncFuzzy(SyncNotes(SyncTarget(
        [funit |-> fu, unit |-> u, changed |-> FALSE], u), u), u), u), u, sg)

\* ------------------------------------------------------- the record store

\* values_list('unitid') of a unit set
UnitIds(us) == {u.unitid : u \in us}

\* the row of a unit set with the given unitid (rows are unique per unitid_hash)
UnitById(us, id) == CHOOSE u \in us : u.unitid = id

\* max_column(queryset, column, default)
MaxOf(S, default) == IF S = {} THEN default ELSE CHOOSE m \in S : \A x \in S : x <= m

\* Store.max_index
max_index(us) == MaxOf({u.index : u \in us}, -1)

\* Store.get_mtime, uncached: the latest mtime of the store's units (0: None)
MaxMtime(us) == MaxOf({u.mtime : u \in us}, 0)

\* no insert is refused
NoConstraint(us, row) == FALSE

\* the unique_together constraint of Unit.Meta: an insert with the
\* unitid_hash of an existing row of the store raises IntegrityError
IntegrityError(us, row) == \E u \in us : u.unitid_hash = row.unitid_hash

\* the row Store.addunit builds from a file unit
AddUnitRow(fu, index, now) == UnitSave(UnitUpdate(NewUnit(index), fu).unit, now)

\* checker.run_filters(unit): the quality-check runner, an external
\* collaborator; here a target form "y" fails the one check "chk"
run_filters(u) == IF \E i \in 1..Len(u.target) : u.target[i] = "y" THEN {"chk"} ELSE {}

\* Unit.update_qualitychecks: the unit's findings after a run
UnitChecks(u) ==
    IF ~Truthy(u.target) THEN {}
    ELSE {[unitid |-> u.unitid, name |-> n] : n \in run_filters(u) \ {"isfuzzy"}}

\* the findings of a check set with those of the units ids rerun
Rechecked(cs, us, ids) ==
    {c \in cs : c.unitid \notin ids}
        \cup UNION {UnitChecks(u) : u \in {v \in us : v.unitid \in ids}}

\* rows deleted take their suggestions and findings with them
Cascade(rel, us) == {r \in rel : r.unitid \in UnitIds(us)}

\* ------------------------------------------------------- the backing file

\* store.getids(): the ids of the file's translatable units
FileIds(funits) == {funits[i].id : i \in {j \in 1..Len(funits) : FileIsTranslatable(funits[j])}}

\* the position of the translatable unit store.findid(id) returns
FilePos(funits, id) ==
    CHOOSE i \in 1..Len(funits) :
        /\ FileIsTranslatable(funits[i]) /\ funits[i].id = id
        /\ \A j \in 1..(i - 1) : ~(FileIsTranslatable(funits[j]) /\ funits[j].id = id)

\* store.findid(id)
FileFind(funits, id) == funits[FilePos(funits, id)]

\* unit.index of a file unit: its position counted from 0
FileIndex(funits, id) == FilePos(funits, id) - 1

\* a set of ids as a sequence, in the order of the given sequence of candidates
RECURSIVE SeqOfIds(_, _)
SeqOfIds(order, ids) ==
    IF order = <<>> THEN <<>>
    ELSE IF Head(order) \in ids
         THEN <<Head(order)>> \o SeqOfIds(Tail(order), ids \ {Head(order)})
         ELSE SeqOfIds(Tail(order), ids)

\* Unit.convert(unitclass): a file unit built from a record, the record's
\* suggestions (of sg, the Suggestion rows) its alternate translations
UnitConvert(u, sg) ==
    [FileUnit(u.unitid, u.source, UnitHasPlural(u), u.target, UnitIsFuzzy(u), FALSE, u.tcomment)
        EXCEPT !.alt = {[source |-> u.source, target |-> s.target] :
                           s \in {t \in sg : t.unitid = u.unitid}}]

\* ------------------------------------------- store operations, as functions

\* an import loop that adds no row
ImportNone(us, funits, k, now) == us

\* Store.parse, the import loop run over the first k units of the file: every
\* translatable unit becomes a row with its file position as index; a unit
\* whose insert raises IntegrityError is skipped
RECURSIVE ImportUnits(_, _, _, _)
ImportUnits(us, funits, k, now) ==
    IF k = 0 THEN us
    ELSE LET prev == ImportUnits(us, funits, k - 1, now)
             row == AddUnitRow(funits[k], k - 1, now)
         IN IF FileIsTranslatable(funits[k]) /\ ~IntegrityError(prev, row)
            THEN prev \cup {row}
            ELSE prev

\* the three identity sets of Store.update, from the file's ids new_ids and
\* the store's ids old_ids
IdsAdded(new_ids, old_ids) == new_ids \ old_ids

\* every id of the store, whether the file still has it or not
IdsOfStore(new_ids, old_ids) == old_ids

IdsRemoved(new_ids, old_ids) == old_ids \ new_ids

IdsShared(new_ids, old_ids) == old_ids \cap new_ids

\* Store.update, update_structure, the rows whose id left the file: a row that
\* is not translated is deleted, a translated one is made obsolete unless
\* conservative
UpdateRemoved(us, removed, conservative, now) ==
    LET gone == {u \in us : u.unitid \in removed}
        deleted == {u \in gone : ~UnitIsTranslated(u)}
        retired == IF conservative THEN gone \ deleted
                   ELSE {UnitSave(UnitMakeObsolete(u), now) : u \in gone \ deleted}
    IN (us \ gone) \cup retired

\* Store.update, update_structure, the ids new in the file: one row each, at
\* the file unit's index
UpdateAdded(us, funits, added, now) ==
    us \cup {AddUnitRow(FileFind(funits, id), FileIndex(funits, id), now) : id \in added}

\* Store.update, update_translation, one shared row: Unit.update from the file
\* unit, the index corrected under update_structure, saved when changed
UpdateSharedRow(u, funits, update_structure, now) ==
    LET r == UnitUpdate(u, FileFind(funits, u.unitid))
        drift == update_structure /\ r.unit.index # FileIndex(funits, u.unitid)
        u1 == IF drift THEN [r.unit EXCEPT !.index = FileIndex(funits, u.unitid)] ELSE r.unit
    IN [row |-> IF r.changed \/ drift THEN UnitSave(u1, now) ELSE u,
        do_checks |-> (r.changed \/ drift) /\ (u1.su \/ u1.tu)]

UpdateShared(us, funits, shared, update_structure, now) ==
    {IF u.unitid \in shared THEN UpdateSharedRow(u, funits, update_structure, now).row ELSE u
        : u \in us}

\* the ids of the shared rows Store.update reruns the quality checks of
UpdateChecked(us, funits, shared, update_structure, now) ==
    {u.unitid : u \in {v \in us : v.unitid \in shared
                         /\ UpdateSharedRow(v, funits, update_structure, now).do_checks}}

\* the Suggestion rows made of the alternate translations of the shared rows'
\* file units
UpdateSharedSuggs(us, funits, shared) ==
    UNION {UpdateSuggestions(UnitUpdate(u, FileFind(funits, u.unitid)).unit,
                             FileFind(funits, u.unitid)) : u \in {v \in us : v.unitid \in shared}}

\* the order in which rows and ids are iterated
IdOrder == <<"a", "b", "c">>

\* Store.get_matcher: the translation memory built when update begins, of the
\* rows of the store, obsolete ones included, that have a source and a target;
\* it is not told of later changes to the rows
GetMatcher(us) ==
    {[source |-> Encoded(u.source), target |-> Encoded(u.target)] :
        u \in {v \in us : Truthy(v.source) /\ Truthy(v.target)}}

\* matcher.matches(source): the candidates the matcher finds alike to the
\* source, sim being the source texts it holds alike to one another
Matches(tm, sim, source) ==
    IF Encoded(source) \in sim THEN {c \in tm : c.source \in sim} ELSE {}

\* Unit.fuzzy_translate(matcher): the best candidate (the ranking is the
\* matcher's), a fuzzy unit, is merged into the unit; the candidate is
\* returned when merge reports a change
FuzzyTranslate(u, tm, sim) ==
    IF Matches(tm, sim, u.source) = {} THEN [unit |-> u, match |-> <<>>]
    ELSE LET c == CHOOSE x \in Matches(tm, sim, u.source) : TRUE
             r == UnitMerge(u, FileUnit("", <<c.source>>, FALSE, <<c.target>>, TRUE, FALSE, ""),
                            FALSE)
         IN [unit |-> r.unit, match |-> IF r.changed THEN <<c>> ELSE <<>>]

\* Store._remove_obsolete(source): the first obsolete row with the hash of the
\* source is deleted
RemoveObsolete(us, source) ==
    LET found == {u \in us : u.state = OBSOLETE /\ u.source_hash = md5(Encoded(source))}
    IN IF found = {} THEN us
       ELSE us \ {CHOOSE u \in found : \A v \in found : u.index <= v.index}

\* Store.update with fuzzy, the rows just added, in turn: one without a target
\* is fuzzy translated, and when it was, saved and the obsolete row of the
\* candidate's source removed. st holds the rows and what was given to whom.
RECURSIVE UpdateAddedFuzzy(_, _, _, _, _)
UpdateAddedFuzzy(st, ids, tm, sim, now) ==
    IF ids = <<>> THEN st
    ELSE LET u == UnitById(st.units, Head(ids))
             f == IF Filled(u.target) THEN [unit |-> u, match |-> <<>>]
                  ELSE FuzzyTranslate(u, tm, sim)
         IN IF f.match = <<>> THEN UpdateAddedFuzzy(st, Tail(ids), tm, sim, now)
            ELSE UpdateAddedFuzzy(
                    [st EXCEPT !.units = RemoveObsolete((st.units \ {u})
                                                           \cup {UnitSave(f.unit, now)},
                                                        <<f.match[1].source>>),
                               !.gave = st.gave \cup {[to |-> u.unitid, of |-> f.match[1]]}],
                    Tail(ids), tm, sim, now)

\* Store.update with fuzzy, the shared rows as they were read (snap), in turn:
\* Unit.update from the file unit, the index corrected, a row left without a
\* target fuzzy translated and the obsolete row of the candidate removed, the
\* row saved when anything changed
RECURSIVE UpdateSharedFuzzy(_, _, _, _, _, _, _, _)
UpdateSharedFuzzy(st, snap, funits, ids, update_structure, tm, sim, now) ==
    IF ids = <<>> THEN st
    ELSE IF Head(ids) \notin UnitIds(snap)
    THEN UpdateSharedFuzzy(st, snap, funits, Tail(ids), update_structure, tm, sim, now)
    ELSE LET id == Head(ids)
             r == UnitUpdate(UnitById(snap, id), FileFind(funits, id))
             drift == update_structure /\ r.unit.index # FileIndex(funits, id)
             u1 == IF drift THEN [r.unit EXCEPT !.index = FileIndex(funits, id)] ELSE r.unit
             f == IF Filled(u1.target) THEN [unit |-> u1, match |-> <<>>]
                  ELSE FuzzyTranslate(u1, tm, sim)
             changed == r.changed \/ drift \/ f.match # <<>>
             db1 == IF f.match = <<>> THEN st.units
                    ELSE RemoveObsolete(st.units, <<f.match[1].source>>)
             db2 == IF changed
                    THEN {v \in db1 : v.unitid # id} \cup {UnitSave(f.unit, now)}
                    ELSE db1
         IN UpdateSharedFuzzy(
               [units |-> db2,
                gave |-> IF f.match = <<>> THEN st.gave
                         ELSE st.gave \cup {[to |-> id, of |-> f.match[1]]},
                redo |-> IF changed /\ (f.unit.su \/ f.unit.tu)
                         THEN st.redo \cup {id} ELSE st.redo],
               snap, funits, Tail(ids), update_structure, tm, sim, now)

\* every state counts as one in which the checks were run before
ChecksAlways(old) == TRUE

\* if oldstate >= CHECKED: the quality checks of the store were run before
ChecksRan(old) == old >= CHECKED

\* Store.update, the body of the try block up to its three phases
UpdateBodyResult(us, cs, sg, funits, a, old, now, phases) ==
    LET old_ids == UnitIds(us)
        new_ids == FileIds(funits)
        added == IdsAdded(new_ids, old_ids)
        removed == IdsRemoved(new_ids, old_ids)
        shared == IdsShared(new_ids, old_ids)
        us1 == IF a.us /\ phases >= 1 THEN UpdateRemoved(us, removed, a.cons, now) ELSE us
        tm == GetMatcher(us)
        ua == IF a.us /\ phases >= 1 THEN UpdateAdded(us1, funits, added, now) ELSE us1
        f2 == IF a.us /\ phases >= 1 /\ a.fuzzy
              THEN UpdateAddedFuzzy([units |-> ua, gave |-> {}, redo |-> {}],
                                    SeqOfIds(IdOrder, added), tm, a.sim, now)
              ELSE [units |-> ua, gave |-> {}, redo |-> {}]
        us2 == f2.units
        cs2 == IF a.us /\ phases >= 1 /\ ChecksRan(old)
               THEN Rechecked(cs, us2, added) ELSE cs
        f3 == IF a.ut /\ phases >= 2
              THEN IF a.fuzzy
                   THEN UpdateSharedFuzzy(f2, us2, funits, SeqOfIds(IdOrder, shared), a.us,
                                          tm, a.sim, now)
                   ELSE [units |-> UpdateShared(us2, funits, shared, a.us, now),
                         gave |-> {},
                         redo |-> UpdateChecked(us2, funits, shared, a.us, now)]
              ELSE f2
        us3 == f3.units
        redo == IF a.ut /\ phases >= 2 /\ ChecksRan(old) THEN f3.redo ELSE {}
        cs3 == Rechecked(cs2, us3, redo)
        sg3 == IF a.ut /\ phases >= 2 THEN sg \cup UpdateSharedSuggs(us2, funits, shared) ELSE sg
    IN [units |-> us3, checks |-> Cascade(cs3, us3), suggs |-> Cascade(sg3, us3),
        diff |-> [added |-> added, removed |-> removed, shared |-> shared,
                  new_ids |-> new_ids, old_ids |-> old_ids, gave |-> f3.gave,
                  redo |-> redo]]

\* Store.sync past its early returns: the file's units after the structural
\* and the translation phase, and whether the file is written
SyncResult(us, funits, sg, a) ==
    LET old_ids == FileIds(funits)
        new_ids == UnitIds(us)
        gone == old_ids \ new_ids
        \* del unit only unbinds the loop variable; a translated unit is made
        \* obsolete unless conservative
        f1 == [i \in 1..Len(funits) |->
                 IF a.us /\ FileIsTranslatable(funits[i]) /\ funits[i].id \in gone
                    /\ i = FilePos(funits, funits[i].id)
                    /\ FileIsTranslated(funits[i]) /\ ~a.cons
                 THEN [funits[i] EXCEPT !.obsolete = TRUE]
                 ELSE funits[i]]
        c1 == a.us /\ gone # {}
        fresh == SeqOfIds(IdOrder, new_ids \ old_ids)
        f2 == IF a.us
              THEN f1 \o [i \in 1..Len(fresh) |-> UnitConvert(UnitById(us, fresh[i]), sg)]
              ELSE f1
        c2 == a.us /\ fresh # <<>>
        shared == old_ids \cap new_ids
        Pushed(i) == UnitSync(UnitById(us, funits[i].id), f2[i], sg)
        IsMatch(i) == /\ a.ut /\ i <= Len(funits) /\ FileIsTranslatable(funits[i])
                      /\ funits[i].id \in shared /\ i = FilePos(funits, funits[i].id)
                      /\ ~(monolingual /\ ~UnitIsTranslated(UnitById(us, funits[i].id)))
        f3 == [i \in 1..Len(f2) |-> IF IsMatch(i) THEN Pushed(i).funit ELSE f2[i]]
        c3 == \E i \in 1..Len(f2) : IsMatch(i) /\ Pushed(i).changed
    IN [funits |-> f3, file_changed |-> c1 \/ c2 \/ c3]

\* Store.addunit(unit) with no index, for the ids of a sequence in turn
RECURSIVE AddNewUnits(_, _, _, _)
AddNewUnits(us, funits, ids, now) ==
    IF ids = <<>> THEN us
    ELSE AddNewUnits(us \cup {AddUnitRow(FileFind(funits, Head(ids)), max_index(us) + 1, now)},
                     funits, Tail(ids), now)

\* Store.mergefile, obsoletemissing, the rows whose id is not in the new file:
\* a translated row is made obsolete, any other is deleted
MergeMissing(us, missing, now) ==
    LET gone == {u \in us : u.unitid \in missing}
    IN (us \ gone) \cup {UnitSave(UnitMakeObsolete(u), now) : u \in {v \in gone : UnitIsTranslated(v)}}

\* Unit.add_suggestion(translation): whether a Suggestion row is created
AddsSuggestion(sg, u, translation) ==
    /\ Truthy(translation)
    /\ translation # u.target
    /\ [unitid |-> u.unitid, target |-> translation] \notin sg

\* the test below with notranslate left out
MergeOnlyTranslated(u, a) == UnitIsTranslated(u) /\ a.sugg

\* Store.mergefile, one shared row: a suggestion is made of the incoming
\* target, or the incoming unit is merged into the row
MergeAsSuggestion(u, a) == a.notrans \/ (UnitIsTranslated(u) /\ a.sugg)

MergeSharedRow(u, inc, sg, a, now) ==
    IF MergeAsSuggestion(u, a)
    THEN IF FileIsTranslated(inc) /\ AddsSuggestion(sg, u, inc.target)
         THEN [row |-> UnitSave(u, now), do_checks |-> FALSE,
               suggs |-> {[unitid |-> u.unitid, target |-> inc.target]}]
         ELSE [row |-> u, do_checks |-> FALSE, suggs |-> {}]
    ELSE LET r == UnitMerge(u, inc, FALSE)
         IN [row |-> IF r.changed THEN UnitSave(r.unit, now) ELSE u,
             do_checks |-> r.changed /\ (r.unit.su \/ r.unit.tu),
             suggs |-> {}]

\* Store.mergefile, the body of the try block before its closing sync
MergeBodyResult(us, cs, sg, newfile, a, old, now) ==
    LET old_ids == UnitIds(us)
        new_ids == FileIds(newfile)
        fresh == IF (~monolingual \/ is_template_project) /\ a.allownew
                 THEN new_ids \ old_ids ELSE {}
        us1 == AddNewUnits(us, newfile, SeqOfIds(IdOrder, fresh), now)
        cs1 == IF old >= CHECKED THEN Rechecked(cs, us1, fresh) ELSE cs
        us2 == IF a.obsmiss THEN MergeMissing(us1, old_ids \ new_ids, now) ELSE us1
        shared == old_ids \cap new_ids
        Row(u) == MergeSharedRow(u, FileFind(newfile, u.unitid), sg, a, now)
        us3 == {IF u.unitid \in shared THEN Row(u).row ELSE u : u \in us2}
        sg3 == sg \cup UNION {Row(u).suggs : u \in {v \in us2 : v.unitid \in shared}}
        redo == {u.unitid : u \in {v \in us2 : v.unitid \in shared /\ Row(v).do_checks}}
        cs3 == IF old >= CHECKED THEN Rechecked(cs1, us3, redo) ELSE cs1
    IN [units |-> us3, checks |-> Cascade(cs3, us3), suggs |-> Cascade(sg3, us3),
        structural |-> us1 # us \/ us2 # us1]

\* the rows of self.units: the non-obsolete ones, ordered by index
RECURSIVE RowsByIndex(_)
RowsByIndex(us) ==
    IF us = {} THEN <<>>
    ELSE LET least == {u \in us : \A v \in us : u.index <= v.index}
             first == UnitById(least, Head(SeqOfIds(IdOrder, UnitIds(least))))
         IN <<first>> \o RowsByIndex(us \ {first})

\* Store.convert(fileclass): a file built from the store's units
StoreConvert(us, sg) ==
    LET rows == RowsByIndex({u \in us : u.state > OBSOLETE})
    IN [i \in 1..Len(rows) |-> UnitConvert(rows[i], sg)]

\* Store.get_mtime through getfromcache: the cached value when there is one
GetMtime(cached, us) == IF cached # 0 THEN cached ELSE MaxMtime(us)

\* -------------------------------------------------------------------- state

VARIABLES
    dbState,     \* Store.state as persisted
    units,       \* the store's Unit rows
    suggs,       \* the Suggestion rows: [unitid, target]
    checks,      \* the QualityCheck rows: [unitid, name]
    file,        \* the backing file: whether it exists, and its units in order
    cacheSync,   \* the cache entry "<pootle_path>:sync" (0: none)
    cacheMtime,  \* the cache entry of get_mtime (0: none)
    clock,       \* the time the last row was saved at
    calls,       \* the operations that may still begin
    proc,        \* per process: its in-memory Store object and the call it runs
    done,        \* the call that ended last, until the next one begins
    hist,        \* the operation completed last, while nothing changed since
    lastState,   \* the last persisted state other than LOCKED
    rec,         \* a Unit object in memory
    recPre,      \* that object before the operation last applied to it
    uop,         \* the operation last applied to it
    uarg         \* that operation's overwrite argument and file unit, what it
                 \* returned and the file unit as it left it

storeVars == <<dbState, units, suggs, checks, file, cacheSync, cacheMtime, clock,
               calls, proc, done, hist, lastState>>

unitVars == <<rec, recPre, uop, uarg>>

vars == <<dbState, units, suggs, checks, file, cacheSync, cacheMtime, clock,
          calls, proc, done, hist, lastState, rec, recPre, uop, uarg>>

\* the processes, each holding its own in-memory Store object
Procs == {1, 2}

\* the arguments of the store operations, all off
NoArgs ==
    [us |-> FALSE, ut |-> FALSE, cons |-> FALSE, create |-> FALSE,
     allownew |-> FALSE, sugg |-> FALSE, notrans |-> FALSE, obsmiss |-> FALSE,
     newfile |-> <<>>, fuzzy |-> FALSE, sim |-> {}]

NoDiff == [added |-> {}, removed |-> {}, shared |-> {}, new_ids |-> {}, old_ids |-> {},
           gave |-> {}, redo |-> {}]

NoHist == [kind |-> "none", a |-> NoArgs, empty |-> FALSE]

NoFile == [exists |-> FALSE, units |-> <<>>]

NoExpect == [again |-> FALSE, parsed |-> FALSE, funits |-> <<>>]

\* a process between calls: self.state is st, no call runs
\*   pc        where it stands in the operation it runs
\*   mem       self.state of its in-memory Store object
\*   oldstate  the local oldstate of parse / update / mergefile
\*   args      the arguments of the running call
\*   cont      where a nested parse returns to
\*   op        the operation called
\*   exc       whether an exception is on its way to the caller
\*   callState self.state when the call was made
\*   preUnits  the rows when the call was made
\*   wrote     whether the call wrote the backing file
\*   diff      the identity sets of the running update, what its fuzzy
\*             matching gave to which row, and the shared rows whose quality
\*             checks it ran
\*   expect    what preceded the running sync
Idle(st) ==
    [pc |-> "idle", mem |-> st, oldstate |-> STATE_NEW, args |-> NoArgs, cont |-> "none",
     op |-> "none", exc |-> FALSE, callState |-> STATE_NEW, preUnits |-> {},
     wrote |-> FALSE, diff |-> NoDiff, expect |-> NoExpect]

NoDone == [proc |-> 0, op |-> "none", how |-> "none", callState |-> STATE_NEW,
           wrote |-> FALSE, again |-> FALSE, parsed |-> FALSE]

\* ------------------------------------------------------------ step helpers

\* Store.save with self.state = st writes the state
Persist(st) ==
    /\ dbState' = st
    /\ lastState' = IF st = LOCKED THEN lastState ELSE st

\* the call of process p goes on with the locals l
Go(p, l) ==
    /\ proc' = [proc EXCEPT ![p] = l]
    /\ UNCHANGED done

\* the call of process p ends, its locals l are gone but for self.state
End(p, l, how) ==
    /\ proc' = [proc EXCEPT ![p] = Idle(l.mem)]
    /\ done' = [proc |-> p, op |-> l.op, how |-> how, callState |-> l.callState,
                wrote |-> l.wrote, again |-> l.expect.again, parsed |-> l.expect.parsed]

\* a parse of process p ends normally: back to the operation that ran it, if any
Resume(p, l) ==
    IF l.cont = "none"
    THEN End(p, l, "returned")
    ELSE Go(p, [l EXCEPT !.pc = l.cont, !.cont = "none"])

\* the state left in place of the one saved at the lock
NotRestored(l) == l.mem

\* the state the except and finally clauses put back: self.state = oldstate
Restored(l) == l.oldstate

\* no state counts as locked
NeverLocked(l) == FALSE

\* if self.state == LOCKED: the store is being updated
IsLocked(l) == l.mem = LOCKED

\* every state counts as not parsed yet
AlwaysParses(l) == TRUE

\* if self.state < PARSED: the file has not been parsed before
NotParsed(l) == l.mem < PARSED

\* the lock: oldstate = self.state; self.state = LOCKED; self.save()
Lock(p, next) ==
    /\ Persist(LOCKED)
    /\ Go(p, [proc[p] EXCEPT !.oldstate = proc[p].mem, !.mem = LOCKED, !.pc = next])

\* process p calls an operation
Call(p, name, a) ==
    /\ proc[p].pc = "idle"
    /\ calls > 0
    /\ calls' = calls - 1
    /\ proc' = [proc EXCEPT ![p] =
                  [Idle(proc[p].mem) EXCEPT
                      !.pc = name, !.op = name, !.args = a,
                      !.callState = proc[p].mem, !.preUnits = units,
                      !.expect = IF name = "sync"
                                 THEN [again |-> hist.kind = "sync" /\ hist.a = a,
                                       parsed |-> hist.kind = "parse" /\ hist.empty,
                                       funits |-> IF hist.kind = "parse" /\ hist.empty
                                                  THEN file.units ELSE <<>>]
                                 ELSE NoExpect]]
    /\ done' = NoDone
    /\ UNCHANGED <<dbState, units, suggs, checks, file, cacheSync, cacheMtime, clock,
                   hist, lastState>>
    /\ UNCHANGED unitVars

\* ------------------------------------------------------------ the processes

\* Store.objects.get(...): process p reads the store's row
Load(p) ==
    /\ proc[p].pc = "idle"
    /\ proc[p].mem # dbState
    /\ proc' = [proc EXCEPT ![p].mem = dbState]
    /\ UNCHANGED <<dbState, units, suggs, checks, file, cacheSync, cacheMtime, clock,
                   calls, done, hist, lastState>>
    /\ UNCHANGED unitVars

CallParse(p) == Call(p, "parse", NoArgs)

\* Store.parse up to the lock: nothing on a LOCKED store, an error with no
\* file to read, nothing on a store PARSED before
ParseEntry(p) ==
    /\ proc[p].pc = "parse"
    /\ IF IsLocked(proc[p])
       THEN Resume(p, proc[p]) /\ UNCHANGED <<dbState, lastState>>
       ELSE IF ~file.exists
       THEN End(p, proc[p], "raised") /\ UNCHANGED <<dbState, lastState>>
       ELSE IF NotParsed(proc[p])
       THEN Lock(p, "parse_body")
       ELSE Resume(p, proc[p]) /\ UNCHANGED <<dbState, lastState>>
    /\ UNCHANGED <<units, suggs, checks, file, cacheSync, cacheMtime, clock, calls, hist>>
    /\ UNCHANGED unitVars

\* Store.parse, the import: all the file's units and then PARSED, or an
\* unexpected error after the first k of them
ParseBody(p, k) ==
    /\ proc[p].pc = "parse_body"
    /\ k \in 0..Len(file.units)
    /\ clock' = clock + 1
    /\ units' = ImportUnits(units, file.units, k, clock + 1)
    /\ IF k = Len(file.units)
       THEN /\ Persist(PARSED)
            /\ cacheMtime' = MaxMtime(units')
            /\ cacheSync' = MaxMtime(units')
            /\ hist' = [NoHist EXCEPT !.kind = "parse", !.empty = units = {}]
            /\ Resume(p, [proc[p] EXCEPT !.mem = PARSED])
       ELSE /\ Go(p, [proc[p] EXCEPT !.pc = "parse_except", !.exc = TRUE])
            /\ hist' = NoHist
            /\ UNCHANGED <<dbState, lastState, cacheMtime, cacheSync>>
    /\ UNCHANGED <<suggs, checks, file, calls>>
    /\ UNCHANGED unitVars

\* Store.parse, the except clause: every row of the store is deleted, the
\* state is put back and the error raised again
ParseExcept(p) ==
    /\ proc[p].pc = "parse_except"
    /\ units' = {}
    /\ suggs' = {}
    /\ checks' = {}
    /\ Persist(Restored(proc[p]))
    /\ End(p, [proc[p] EXCEPT !.mem = Restored(proc[p])], "raised")
    /\ hist' = NoHist
    /\ UNCHANGED <<file, cacheSync, cacheMtime, clock, calls>>
    /\ UNCHANGED unitVars

CallUpdate(p, a) == Call(p, "update", a)

\* Store.update up to the lock: nothing on a LOCKED store, parse instead on
\* a store not PARSED yet, an error with no file to read
UpdateEntry(p) ==
    /\ proc[p].pc = "update"
    /\ IF IsLocked(proc[p])
       THEN End(p, proc[p], "returned") /\ UNCHANGED <<dbState, lastState>>
       ELSE IF proc[p].mem < PARSED
       THEN Go(p, [proc[p] EXCEPT !.pc = "parse"]) /\ UNCHANGED <<dbState, lastState>>
       ELSE IF ~file.exists
       THEN End(p, proc[p], "raised") /\ UNCHANGED <<dbState, lastState>>
       ELSE Lock(p, "update_body")
    /\ UNCHANGED <<units, suggs, checks, file, cacheSync, cacheMtime, clock, calls, hist>>
    /\ UNCHANGED unitVars

\* Store.update, the try block: all of it (phases = 2), or an unexpected error
\* before the structural phase (0) or between the two phases (1)
UpdateBody(p, phases) ==
    /\ proc[p].pc = "update_body"
    /\ phases \in 0..2
    /\ clock' = clock + 1
    /\ \E r \in {UpdateBodyResult(units, checks, suggs, file.units, proc[p].args,
                                   proc[p].oldstate, clock + 1, phases)} :
          /\ units' = r.units
          /\ checks' = r.checks
          /\ suggs' = r.suggs
          /\ Go(p, [proc[p] EXCEPT !.pc = "update_finally", !.exc = phases < 2,
                                   !.diff = r.diff])
    /\ hist' = NoHist
    /\ UNCHANGED <<dbState, lastState, file, cacheSync, cacheMtime, calls>>
    /\ UNCHANGED unitVars

\* Store.update, the finally clause: the state is put back and saved; the
\* sync entry of the cache is set after a full non-conservative update
UpdateFinally(p) ==
    /\ proc[p].pc = "update_finally"
    /\ Persist(Restored(proc[p]))
    /\ LET a == proc[p].args
           flushed == IF Restored(proc[p]) >= PARSED THEN 0 ELSE cacheMtime
           full == a.us /\ a.ut /\ ~a.cons
       IN /\ cacheMtime' = IF full THEN GetMtime(flushed, units) ELSE flushed
          /\ cacheSync' = IF full THEN GetMtime(flushed, units) ELSE cacheSync
    /\ End(p, [proc[p] EXCEPT !.mem = Restored(proc[p])],
           IF proc[p].exc THEN "raised" ELSE "returned")
    /\ UNCHANGED <<units, suggs, checks, file, clock, calls, hist>>
    /\ UNCHANGED unitVars

CallMergefile(p, a) == Call(p, "mergefile", a)

\* Store.mergefile up to the lock: nothing for an empty new file or on a
\* LOCKED store; require_units parses a store with neither state nor rows
MergeEntry(p) ==
    /\ proc[p].pc = "mergefile"
    /\ IF proc[p].args.newfile = <<>> \/ IsLocked(proc[p])
       THEN End(p, proc[p], "returned") /\ UNCHANGED <<dbState, lastState>>
       ELSE IF proc[p].mem < PARSED /\ units = {}
       THEN /\ Go(p, [proc[p] EXCEPT !.pc = "parse", !.cont = "merge_lock"])
            /\ UNCHANGED <<dbState, lastState>>
       ELSE Lock(p, "merge_body")
    /\ UNCHANGED <<units, suggs, checks, file, cacheSync, cacheMtime, clock, calls, hist>>
    /\ UNCHANGED unitVars

\* Store.mergefile after the parse require_units ran
MergeAfterParse(p) ==
    /\ proc[p].pc = "merge_lock"
    /\ Lock(p, "merge_body")
    /\ UNCHANGED <<units, suggs, checks, file, cacheSync, cacheMtime, clock, calls, hist>>
    /\ UNCHANGED unitVars

\* Store.mergefile, whether the try block closes with a sync
MergeSyncs(a) == a.allownew \/ a.obsmiss

\* the arguments of that sync: update_structure=True, update_translation=True,
\* conservative=False, create=False
MergeSyncArgs == [NoArgs EXCEPT !.us = TRUE, !.ut = TRUE, !.cons = FALSE, !.create = FALSE]

\* Store.mergefile, the try block: all of it with its closing sync (ok), or an
\* unexpected error before any row is touched
MergeBody(p, ok) ==
    /\ proc[p].pc = "merge_body"
    /\ clock' = clock + 1
    /\ \E r \in {MergeBodyResult(units, checks, suggs, proc[p].args.newfile, proc[p].args,
                                  proc[p].oldstate, clock + 1)},
          syncs \in {ok /\ MergeSyncs(proc[p].args) /\ file.exists} :
       \E f \in {SyncResult(r.units, file.units, r.suggs, MergeSyncArgs)} :
          /\ units' = IF ok THEN r.units ELSE units
          /\ checks' = IF ok THEN r.checks ELSE checks
          /\ suggs' = IF ok THEN r.suggs ELSE suggs
          /\ file' = IF syncs /\ f.file_changed THEN [file EXCEPT !.units = f.funits] ELSE file
          /\ cacheMtime' = IF syncs THEN GetMtime(cacheMtime, r.units) ELSE cacheMtime
          /\ cacheSync' = IF syncs THEN GetMtime(cacheMtime, r.units) ELSE cacheSync
          /\ Go(p, [proc[p] EXCEPT !.pc = "merge_finally", !.exc = ~ok,
                                   !.wrote = syncs /\ f.file_changed])
    /\ hist' = NoHist
    /\ UNCHANGED <<dbState, lastState, calls>>
    /\ UNCHANGED unitVars

\* Store.mergefile, the finally clause: the state is put back and saved
MergeFinally(p) ==
    /\ proc[p].pc = "merge_finally"
    /\ Persist(Restored(proc[p]))
    /\ cacheMtime' = IF Restored(proc[p]) >= PARSED THEN 0 ELSE cacheMtime
    /\ End(p, [proc[p] EXCEPT !.mem = Restored(proc[p])],
           IF proc[p].exc THEN "raised" ELSE "returned")
    /\ UNCHANGED <<units, suggs, checks, file, cacheSync, clock, calls, hist>>
    /\ UNCHANGED unitVars

CallSync(p, a) == Call(p, "sync", a)

\* Store.sync up to its body: nothing when the cached last sync is current
\* (conservative only); with no file, one is created on request from
\* self.units (whose require_units parses a store with neither state nor
\* rows, an error with no file to read), the store saved and the call over.
\* The state is never looked at.
SyncEntry(p) ==
    /\ proc[p].pc = "sync"
    /\ LET a == proc[p].args
           current == a.cons /\ cacheSync # 0 /\ cacheSync = GetMtime(cacheMtime, units)
           template == a.cons /\ is_template_project
           wanted == ~current /\ ~file.exists /\ a.create
           parses == proc[p].mem < PARSED /\ units = {} /\ ~IsLocked(proc[p])
           creates == wanted /\ ~parses
           flushed == IF proc[p].mem >= PARSED THEN 0 ELSE cacheMtime
       IN /\ IF current \/ ~file.exists \/ template
             THEN End(p, [proc[p] EXCEPT !.wrote = creates],
                      IF wanted /\ parses THEN "raised" ELSE "returned")
             ELSE Go(p, [proc[p] EXCEPT !.pc = "sync_body"])
          /\ file' = IF creates THEN [exists |-> TRUE, units |-> StoreConvert(units, suggs)] ELSE file
          /\ IF creates THEN Persist(proc[p].mem) ELSE UNCHANGED <<dbState, lastState>>
          /\ cacheMtime' = IF creates THEN GetMtime(flushed, units)
                           ELSE IF a.cons /\ cacheSync # 0 THEN GetMtime(cacheMtime, units)
                           ELSE cacheMtime
          /\ cacheSync' = IF creates THEN GetMtime(flushed, units) ELSE cacheSync
          /\ hist' = IF creates THEN [NoHist EXCEPT !.kind = "sync", !.a = a] ELSE hist
    /\ UNCHANGED <<units, suggs, checks, clock, calls>>
    /\ UNCHANGED unitVars

\* Store.sync, the body: the file's units are brought in line with the rows,
\* the file is written when anything changed, the last sync is cached
SyncBody(p) ==
    /\ proc[p].pc = "sync_body"
    /\ \E r \in {SyncResult(units, file.units, suggs, proc[p].args)} :
          /\ file' = IF r.file_changed THEN [file EXCEPT !.units = r.funits] ELSE file
          /\ End(p, [proc[p] EXCEPT !.wrote = r.file_changed], "returned")
    /\ cacheMtime' = GetMtime(cacheMtime, units)
    /\ cacheSync' = GetMtime(cacheMtime, units)
    /\ hist' = [NoHist EXCEPT !.kind = "sync", !.a = proc[p].args]
    /\ UNCHANGED <<dbState, lastState, units, suggs, checks, clock, calls>>
    /\ UNCHANGED unitVars

CallQc(p) == Call(p, "update_qualitychecks", NoArgs)

\* Store.update_qualitychecks past self.units: the checks of every row that is
\* not obsolete are run again, and a state below CHECKED becomes CHECKED
QcRun(p) ==
    /\ checks' = Rechecked(checks, units, {u.unitid : u \in {v \in units : v.state > OBSOLETE}})
    /\ IF proc[p].mem < CHECKED
       THEN /\ Persist(CHECKED)
            /\ cacheMtime' = 0
            /\ End(p, [proc[p] EXCEPT !.mem = CHECKED], "returned")
       ELSE /\ UNCHANGED <<dbState, lastState, cacheMtime>>
            /\ End(p, proc[p], "returned")
    /\ UNCHANGED <<units, suggs, file, cacheSync, clock, calls, hist>>
    /\ UNCHANGED unitVars

\* Store.update_qualitychecks: self.units has require_units parse a store with
\* neither state nor rows first
QcEntry(p) ==
    /\ proc[p].pc = "update_qualitychecks"
    /\ IF proc[p].mem < PARSED /\ units = {}
       THEN /\ Go(p, [proc[p] EXCEPT !.pc = "parse", !.cont = "qc_body"])
            /\ UNCHANGED <<dbState, lastState, units, suggs, checks, file, cacheSync,
                           cacheMtime, clock, calls, hist>>
            /\ UNCHANGED unitVars
       ELSE QcRun(p)

\* Store.update_qualitychecks after the parse require_units ran
QcBody(p) ==
    /\ proc[p].pc = "qc_body"
    /\ QcRun(p)

\* ------------------------------------------------------------ the environment

\* a translator submits text for a row: unit.target = t; unit.save(), the
\* unit's store read from the database
EditUnit(id, t) ==
    /\ calls > 0
    /\ calls' = calls - 1
    /\ \E u \in units :
          /\ u.unitid = id
          /\ u.state > OBSOLETE
          /\ LET row == UnitSave(UnitSetTarget(u, t), clock + 1)
             IN /\ units' = (units \ {u}) \cup {row}
                /\ checks' = IF dbState >= CHECKED THEN Rechecked(checks, units', {id})
                             ELSE checks
    /\ clock' = clock + 1
    /\ cacheMtime' = IF dbState >= PARSED THEN 0 ELSE cacheMtime
    /\ hist' = NoHist
    /\ UNCHANGED <<dbState, lastState, suggs, file, cacheSync, proc, done>>
    /\ UNCHANGED unitVars

\* Store.addunit(unit) on a saved store, index None: a row after the last one
AddUnit(fu) ==
    /\ calls > 0
    /\ calls' = calls - 1
    /\ LET row == AddUnitRow(fu, max_index(units) + 1, clock + 1)
       IN /\ ~IntegrityError(units, row)
          /\ units' = units \cup {row}
          /\ checks' = IF dbState >= CHECKED THEN Rechecked(checks, units', {row.unitid})
                       ELSE checks
    /\ clock' = clock + 1
    /\ cacheMtime' = IF dbState >= PARSED THEN 0 ELSE cacheMtime
    /\ hist' = NoHist
    /\ UNCHANGED <<dbState, lastState, suggs, file, cacheSync, proc, done>>
    /\ UNCHANGED unitVars

\* the file on disk is replaced from outside while no operation runs
FileEdit(f) ==
    /\ calls > 0
    /\ calls' = calls - 1
    /\ \A p \in Procs : proc[p].pc = "idle"
    /\ file.exists
    /\ file.units # f
    /\ file' = [file EXCEPT !.units = f]
    /\ hist' = NoHist
    /\ UNCHANGED <<dbState, lastState, units, suggs, checks, cacheSync, cacheMtime, clock,
                   proc, done>>
    /\ UNCHANGED unitVars

\* any suggestion there is, of whatever unit
AnySuggestion(sgs, sg, id) == sg \in sgs

\* self.suggestion_set.get(id=suggid): the suggestion, if it is one of the unit
IsSuggestionOf(sgs, sg, id) == sg \in sgs /\ sg.unitid = id

\* Unit.accept_suggestion(suggid) on the unit id of the store, sg the row (if
\* any) that suggid names: the suggestion's target becomes the unit's, the unit
\* is saved and the suggestion deleted; False when the unit has no such
\* suggestion. rec and recPre keep the unit after and before, uarg the
\* suggestion and what was returned.
AcceptSuggestion(id, sg) ==
    /\ calls > 0
    /\ calls' = calls - 1
    /\ \E u \in units, found \in {IsSuggestionOf(suggs, sg, id)} :
          /\ u.unitid = id
          /\ \E row \in {IF found THEN UnitSave(UnitSetTarget(u, sg.target), clock + 1) ELSE u} :
                /\ units' = (units \ {u}) \cup {row}
                /\ rec' = row
          /\ recPre' = u
          /\ suggs' = IF found THEN suggs \ {sg} ELSE suggs
          /\ checks' = IF found /\ dbState >= CHECKED THEN Rechecked(checks, units', {id})
                       ELSE checks
          /\ clock' = IF found THEN clock + 1 ELSE clock
          /\ cacheMtime' = IF found /\ dbState >= PARSED THEN 0 ELSE cacheMtime
          /\ hist' = IF found THEN NoHist ELSE hist
          /\ uarg' = [unit |-> FileUnit(sg.unitid, <<"">>, FALSE, sg.target, FALSE, FALSE, ""),
                      overwrite |-> FALSE, changed |-> found,
                      funit |-> FileUnit("", <<"">>, FALSE, <<"">>, FALSE, FALSE, "")]
    /\ uop' = "accept_suggestion"
    /\ UNCHANGED <<dbState, lastState, file, cacheSync, proc, done>>

\* ------------------------------------------------ one Unit held in memory

NoUArg == [unit |-> FileUnit("", <<"">>, FALSE, <<"">>, FALSE, FALSE, ""),
           overwrite |-> FALSE, changed |-> FALSE,
           funit |-> FileUnit("", <<"">>, FALSE, <<"">>, FALSE, FALSE, "")]

UnitStep(name, after, a) ==
    /\ rec' = after
    /\ recPre' = rec
    /\ uop' = name
    /\ uarg' = a
    /\ UNCHANGED storeVars

USetTarget(t) == UnitStep("settarget", UnitSetTarget(rec, t), NoUArg)

USave == UnitStep("save", UnitSave(rec, rec.mtime), NoUArg)

UMerge(inc, overwrite) ==
    LET r == UnitMerge(rec, inc, overwrite)
    IN UnitStep("merge", r.unit, [unit |-> inc, overwrite |-> overwrite, changed |-> r.changed,
                                  funit |-> inc])

UUpdate(fu) ==
    LET r == UnitUpdate(rec, fu)
    IN UnitStep("update", r.unit, [unit |-> fu, overwrite |-> FALSE, changed |-> r.changed,
                                   funit |-> fu])

\* unit.sync(fu): uarg keeps the file unit as given and as left
USync(fu) ==
    LET r == UnitSync(rec, fu, suggs)
    IN UnitStep("sync", r.unit, [unit |-> fu, overwrite |-> FALSE, changed |-> r.changed,
                                 funit |-> r.funit])

UMarkFuzzy(value) == UnitStep("markfuzzy", UnitMarkFuzzy(rec, value), NoUArg)

UMakeObsolete == UnitStep("makeobsolete", UnitMakeObsolete(rec), NoUArg)

UResurrect == UnitStep("resurrect", UnitResurrect(rec), NoUArg)

\* ------------------------------------------------------------------ inputs

fuA == FileUnit("a", <<"A">>, FALSE, <<"">>, FALSE, FALSE, "")

fuAx == FileUnit("a", <<"A">>, FALSE, <<"x">>, FALSE, FALSE, "")

fuAy == FileUnit("a", <<"A">>, FALSE, <<"y">>, FALSE, FALSE, "n")

fuB == FileUnit("b", <<"B", "Bs">>, TRUE, <<"", "">>, FALSE, FALSE, "")

fuBx == FileUnit("b", <<"B", "Bs">>, TRUE, <<"x", "y">>, FALSE, FALSE, "")

fuBp == FileUnit("b", <<"B", "Bs">>, TRUE, <<"", "x">>, FALSE, FALSE, "")

fuBs == FileUnit("b", <<"B", "Bs">>, TRUE, <<"x">>, FALSE, FALSE, "")

fuC == FileUnit("c", <<"C">>, FALSE, <<"x">>, TRUE, FALSE, "n")

fuCo == FileUnit("c", <<"C">>, FALSE, <<"x">>, FALSE, TRUE, "")

\* the files of the two-process specification
Files == {<<fuAx>>, <<fuA, fuC>>}

\* the files of the one-process specification
FilesSeq == {<<fuAx, fuB>>, <<fuA, fuBp, fuC>>, <<fuAy, fuAx>>, <<fuCo, fuBx, fuC>>}

\* the file units handed to the operations of one Unit
UnitInputs == {fuA, fuAx, fuAy, fuB, fuBx, fuBp, fuBs, fuC, fuCo}

\* a file unit that carries an alternate translation, and one with a plural
\* and a single source string
fuAa == [fuAx EXCEPT !.alt = {[source |-> <<"A">>, target |-> <<"y">>]}]

fuPs == FileUnit("b", <<"B">>, TRUE, <<"x", "y">>, FALSE, FALSE, "")

\* the file units Unit.update is called with
UpdateInputs == UnitInputs \cup {fuAa, fuPs}

Targets == {<<"">>, <<"x">>, <<"", "x">>}

\* the suggestion rows accept_suggestion is called with the ids of, and the
\* units it is called on
SuggInputs == {[unitid |-> "a", target |-> <<"y">>], [unitid |-> "b", target |-> <<"x", "y">>]}

SuggUnits == {"a", "b"}

Flags(us, ut, cons, create) ==
    [NoArgs EXCEPT !.us = us, !.ut = ut, !.cons = cons, !.create = create]

MergeFlags(newfile, allownew, sugg, notrans, obsmiss) ==
    [NoArgs EXCEPT !.newfile = newfile, !.allownew = allownew, !.sugg = sugg,
                   !.notrans = notrans, !.obsmiss = obsmiss]

UpdateArgs == {Flags(TRUE, TRUE, FALSE, FALSE), Flags(TRUE, FALSE, TRUE, FALSE)}

SyncArgs == {Flags(TRUE, TRUE, FALSE, TRUE), Flags(FALSE, TRUE, TRUE, FALSE)}

MergeArgs == {MergeFlags(<<fuAy>>, TRUE, FALSE, FALSE, TRUE),
              MergeFlags(<<>>, FALSE, FALSE, FALSE, FALSE)}

UpdateArgsSeq == {Flags(us, ut, cons, FALSE) : us \in BOOLEAN, ut \in BOOLEAN, cons \in BOOLEAN}

SyncArgsSeq ==
    {Flags(us, ut, cons, FALSE) : us \in BOOLEAN, ut \in BOOLEAN, cons \in BOOLEAN}
        \cup {Flags(FALSE, FALSE, FALSE, TRUE)}

MergeArgsSeq ==
    {MergeFlags(<<fuAy, fuBx>>, an, sg, FALSE, om) :
        an \in BOOLEAN, sg \in BOOLEAN, om \in BOOLEAN}
        \cup {MergeFlags(<<>>, FALSE, FALSE, FALSE, FALSE)}

\* a unit without a target
fuCe == FileUnit("c", <<"C">>, FALSE, <<"">>, FALSE, FALSE, "")

\* the files an updated store is given: those it may have been parsed from,
\* one of new units without a target, one of the same units in another order
FilesUpd == FilesSeq \cup {<<fuB, fuCe>>, <<fuBx, fuA>>}

\* update with fuzzy matching, under a matcher that holds these source texts
\* alike
UpdateArgsFuz ==
    {[Flags(us, ut, cons, FALSE) EXCEPT !.fuzzy = TRUE, !.sim = sim] :
        us \in BOOLEAN, ut \in BOOLEAN, cons \in BOOLEAN,
        sim \in {{"A", "B", "C"}, {"A", "B"}}}

\* the new files and flags of mergefile, every combination
MergeArgsAll ==
    {MergeFlags(nf, an, sg, nt, om) :
        nf \in {<<fuAy, fuBx>>}, an \in BOOLEAN, sg \in BOOLEAN, nt \in BOOLEAN,
        om \in BOOLEAN}

\* ----------------------------------------------------------- specifications

\* a store just created, with its file (or none) on disk
InitStore(files, budget) ==
    /\ dbState = STATE_NEW
    /\ units = {}
    /\ suggs = {}
    /\ checks = {}
    /\ file \in {NoFile} \cup {[exists |-> TRUE, units |-> f] : f \in files}
    /\ cacheSync = 0
    /\ cacheMtime = 0
    /\ clock = 0
    /\ calls = budget
    /\ proc = [p \in Procs |-> Idle(STATE_NEW)]
    /\ done = NoDone
    /\ hist = NoHist
    /\ lastState = STATE_NEW

InitRec(recs) ==
    /\ rec \in recs
    /\ recPre = rec
    /\ uop = "none"
    /\ uarg = NoUArg

\* Two processes work on one store; translators edit rows meanwhile.
Init == InitStore(Files, MaxCalls) /\ InitRec({NewUnit(0)})

Next ==
    \/ \E p \in Procs : Load(p)
    \/ \E p \in Procs : CallParse(p)
    \/ \E p \in Procs : ParseEntry(p)
    \/ \E p \in Procs, k \in 0..2 : ParseBody(p, k)
    \/ \E p \in Procs : ParseExcept(p)
    \/ \E p \in Procs, a \in UpdateArgs : CallUpdate(p, a)
    \/ \E p \in Procs : UpdateEntry(p)
    \/ \E p \in Procs, phases \in 0..2 : UpdateBody(p, phases)
    \/ \E p \in Procs : UpdateFinally(p)
    \/ \E p \in Procs, a \in MergeArgs : CallMergefile(p, a)
    \/ \E p \in Procs : MergeEntry(p)
    \/ \E p \in Procs : MergeAfterParse(p)
    \/ \E p \in Procs, ok \in BOOLEAN : MergeBody(p, ok)
    \/ \E p \in Procs : MergeFinally(p)
    \/ \E p \in Procs, a \in SyncArgs : CallSync(p, a)
    \/ \E p \in Procs : SyncEntry(p)
    \/ \E p \in Procs : SyncBody(p)
    \/ \E p \in Procs : CallQc(p)
    \/ \E p \in Procs : QcEntry(p)
    \/ \E p \in Procs : QcBody(p)
    \/ EditUnit("a", <<"y">>)

Spec == Init /\ [][Next]_vars

\* One process works on one store, with every combination of arguments; rows
\* are edited and added and the file replaced between its calls.
InitSeq == InitStore(FilesSeq, MaxCallsSeq) /\ InitRec({NewUnit(0)})

\* the operations of one caller on the store and its rows; the file is written
\* by the store alone
NextStore ==
    \/ CallParse(1)
    \/ ParseEntry(1)
    \/ \E k \in 0..3 : ParseBody(1, k)
    \/ ParseExcept(1)
    \/ \E a \in UpdateArgsSeq : CallUpdate(1, a)
    \/ UpdateEntry(1)
    \/ \E phases \in 0..2 : UpdateBody(1, phases)
    \/ UpdateFinally(1)
    \/ \E a \in MergeArgsSeq : CallMergefile(1, a)
    \/ MergeEntry(1)
    \/ MergeAfterParse(1)
    \/ \E ok \in BOOLEAN : MergeBody(1, ok)
    \/ MergeFinally(1)
    \/ \E a \in SyncArgsSeq : CallSync(1, a)
    \/ SyncEntry(1)
    \/ SyncBody(1)
    \/ CallQc(1)
    \/ QcEntry(1)
    \/ QcBody(1)
    \/ proc[1].pc = "idle" /\ \E t \in Targets : EditUnit("b", t)
    \/ proc[1].pc = "idle" /\ \E fu \in {fuAx, fuC} : AddUnit(fu)
    \/ proc[1].pc = "idle" /\ \E id \in SuggUnits, sg \in SuggInputs : AcceptSuggestion(id, sg)

NextSeq ==
    \/ NextStore
    \/ \E f \in FilesSeq : FileEdit(f)

SpecSeq == InitSeq /\ [][NextSeq]_vars

\* the same caller while nothing but the store writes the file
SpecStore == InitSeq /\ [][NextStore]_vars

\* One Unit in memory, read from a row written by Store.addunit.
InitUnit ==
    /\ InitStore({}, 0)
    /\ InitRec({AddUnitRow(fu, 0, 1) : fu \in UnitInputs})

NextUnit ==
    \/ \E t \in Targets : USetTarget(t)
    \/ USave
    \/ \E inc \in UnitInputs, overwrite \in BOOLEAN : UMerge(inc, overwrite)
    \/ \E fu \in UpdateInputs : UUpdate(fu)
    \/ \E fu \in UnitInputs : USync(fu)
    \/ \E value \in BOOLEAN : UMarkFuzzy(value)
    \/ UMakeObsolete
    \/ UResurrect

SpecUnit == InitUnit /\ [][NextUnit]_vars

\* One process updates, again and again, a store that was parsed from one
\* file, had its quality checks run or not, and whose file was then replaced
\* by another.
InitUpd ==
    /\ \E f \in FilesSeq : units = ImportUnits({}, f, Len(f), 1)
    /\ dbState \in {PARSED, CHECKED}
    /\ lastState = dbState
    /\ suggs = {}
    /\ checks = IF dbState = CHECKED THEN Rechecked({}, units, UnitIds(units)) ELSE {}
    /\ file \in {[exists |-> TRUE, units |-> f] : f \in FilesUpd}
    /\ cacheSync = MaxMtime(units)
    /\ cacheMtime = MaxMtime(units)
    /\ clock = 1
    /\ calls = MaxCallsUpd
    /\ proc = [p \in Procs |-> Idle(dbState)]
    /\ done = NoDone
    /\ hist = NoHist
    /\ InitRec({NewUnit(0)})

NextUpd ==
    \/ \E a \in UpdateArgsSeq \cup UpdateArgsFuz : CallUpdate(1, a)
    \/ UpdateEntry(1)
    \/ \E phases \in 0..2 : UpdateBody(1, phases)
    \/ UpdateFinally(1)

SpecUpd == InitUpd /\ [][NextUpd]_vars

\* the parsed store is updated from its file and synced back to it
NextUpdSync ==
    \/ NextUpd
    \/ \E a \in SyncArgsSeq : CallSync(1, a)
    \/ SyncEntry(1)
    \/ SyncBody(1)

SpecUpdSync == InitUpd /\ [][NextUpdSync]_vars

\* Two processes work on a store that was created without a backing file and
\* given a row by addunit: new files are merged into it, and its file is
\* created by sync.
InitLock ==
    /\ dbState = STATE_NEW
    /\ lastState = STATE_NEW
    /\ units \in {{AddUnitRow(fu, 0, 1)} : fu \in {fuAx, fuC}}
    /\ suggs = {}
    /\ checks = {}
    /\ file = NoFile
    /\ cacheSync = 0
    /\ cacheMtime = 0
    /\ clock = 1
    /\ calls = MaxCallsLock
    /\ proc = [p \in Procs |-> Idle(STATE_NEW)]
    /\ done = NoDone
    /\ hist = NoHist
    /\ InitRec({NewUnit(0)})

NextLock ==
    \/ \E p \in Procs : Load(p)
    \/ \E p \in Procs, a \in MergeArgs : CallMergefile(p, a)
    \/ \E p \in Procs : MergeEntry(p)
    \/ \E p \in Procs, ok \in BOOLEAN : MergeBody(p, ok)
    \/ \E p \in Procs : MergeFinally(p)
    \/ \E p \in Procs, a \in SyncArgs : CallSync(p, a)
    \/ \E p \in Procs : SyncEntry(p)
    \/ \E p \in Procs : SyncBody(p)

SpecLock == InitLock /\ [][NextLock]_vars

\* One process merges new files, with every combination of flags, into a
\* store that was parsed from one file and whose file was then replaced.
InitMrg ==
    /\ \E f \in FilesSeq : units = ImportUnits({}, f, Len(f), 1)
    /\ dbState = PARSED
    /\ lastState = PARSED
    /\ suggs = {}
    /\ checks = {}
    /\ file \in {[exists |-> TRUE, units |-> f] : f \in FilesSeq}
    /\ cacheSync = MaxMtime(units)
    /\ cacheMtime = MaxMtime(units)
    /\ clock = 1
    /\ calls = MaxCallsMrg
    /\ proc = [p \in Procs |-> Idle(PARSED)]
    /\ done = NoDone
    /\ hist = NoHist
    /\ InitRec({NewUnit(0)})

NextMrg ==
    \/ \E a \in MergeArgsAll : CallMergefile(1, a)
    \/ MergeEntry(1)
    \/ \E ok \in BOOLEAN : MergeBody(1, ok)
    \/ MergeFinally(1)

SpecMrg == InitMrg /\ [][NextMrg]_vars

\* ------------------------------------------------------------------ claims

\* the positions in parse, update, sync and mergefile between which rows or
\* the file are changed
Mutating ==
    {"parse_body", "parse_except", "update_body", "update_finally",
     "merge_body", "merge_finally", "sync_body"}

\* process p takes the step
Steps(p) == proc'[p] # proc[p]

\* C1: the successive persisted states other than LOCKED never decrease,
\* whatever two processes do to the store and in whatever order.
StateNeverDecreases == [][dbState' # LOCKED => dbState' >= lastState]_vars

\* C2: update and mergefile called with the state PARSED or CHECKED, and a
\* parse that fails, end with the state (in memory and persisted) equal to
\* the state at the call, whether they return or raise.
StateRestored ==
    [][\A p \in Procs :
         /\ Steps(p)
         /\ proc'[p].pc = "idle"
         /\ \/ proc[p].pc \in {"update_finally", "merge_finally"} /\ proc[p].callState >= PARSED
            \/ proc[p].pc = "parse_except"
         => proc'[p].mem = proc[p].callState /\ dbState' = proc[p].callState]_vars

\* C2 witness: an update of a PARSED or CHECKED store raised out of its try
\* block and the state is the one at the call
UpdateRaisedRestored ==
    /\ done.op = "update" /\ done.how = "raised" /\ done.callState >= PARSED
    /\ file.exists
    /\ dbState = done.callState

\* C3: no two of parse, update, sync and mergefile are between their first
\* and last change of the store at once.
MutualExclusion == Cardinality({p \in Procs : proc[p].pc \in Mutating}) <= 1

\* C4: parse, update and mergefile called with the state LOCKED return
\* without raising, and change neither the state nor any row, suggestion,
\* quality check or the file.
LockedIsLeftAlone ==
    [][\A p \in Procs :
         /\ Steps(p)
         /\ proc[p].pc \in {"parse", "update", "mergefile"}
         /\ proc[p].mem = LOCKED
         => /\ <<dbState, units, suggs, checks, file>>' = <<dbState, units, suggs, checks, file>>
            /\ proc'[p].mem = LOCKED
            /\ \/ proc'[p].pc = "idle" /\ done'.proc = p /\ done'.how = "returned"
               \/ proc[p].op = "update_qualitychecks" /\ proc'[p].pc = "qc_body"]_vars

\* C4 witness: an update called with the state LOCKED has returned
UpdateOnLockedReturned ==
    done.op = "update" /\ done.callState = LOCKED /\ done.how = "returned"

\* C5: sync called with the state LOCKED leaves the file as it is.
SyncLeavesFileWhenLocked ==
    [][\A p \in Procs :
         Steps(p) /\ proc[p].op = "sync" /\ proc[p].callState = LOCKED
         => file' = file]_vars

\* C6: a parse of a NEW store that fails during the import ends with the
\* state NEW and with exactly the rows the store had at the call.
FailedParseKeepsRows ==
    [][\A p \in Procs :
         Steps(p) /\ proc[p].pc = "parse_except" /\ proc[p].callState = STATE_NEW
         => dbState' = STATE_NEW /\ units' = proc[p].preUnits]_vars

\* C7: merge leaves the target alone when the record has a target and
\* overwrite is off, and when the record is translated and the incoming unit
\* is not.
MergeKeepsTarget ==
    uop = "merge"
    /\ \/ Filled(recPre.target) /\ ~uarg.overwrite
       \/ UnitIsTranslated(recPre) /\ ~FileIsTranslated(uarg.unit)
    => rec.target = recPre.target

\* C8: the three identity sets update works on are the file's ids not in the
\* store, the store's not in the file and those in both: pairwise disjoint,
\* together all ids of file and store.
DiffPartitions ==
    \A p \in Procs :
        proc[p].pc = "update_finally" =>
            LET d == proc[p].diff
                F == FileIds(file.units)
                S == d.old_ids
            IN /\ d.new_ids = F
               /\ d.added = F \ S /\ d.removed = S \ F /\ d.shared = F \cap S
               /\ d.added \cap d.removed = {}
               /\ d.added \cap d.shared = {}
               /\ d.removed \cap d.shared = {}
               /\ d.added \cup d.removed \cup d.shared = F \cup S

\* C8 witness: an update has worked on ids of all three kinds
DiffOfEveryKind ==
    \E p \in Procs :
        /\ proc[p].pc = "update_finally"
        /\ proc[p].diff.added # {}
        /\ proc[p].diff.removed # {}
        /\ proc[p].diff.shared # {}

\* C9: a sync that follows a sync with the same arguments, no row and no file
\* changed in between, does not write the file.
SecondSyncWritesNothing == done.op = "sync" /\ done.again => ~done.wrote

\* the targets of the file's units, in order
TargetsOf(funits) == [i \in 1..Len(funits) |-> funits[i].target]

BodyDone(p) ==
    /\ proc[p].pc \in {"update_body", "merge_body"}
    /\ proc'[p].pc \in {"update_finally", "merge_finally"}
    /\ ~proc'[p].exc

\* the rows with a target, TRANSLATED or FUZZY, whose id the file given does
\* not hold
Vanished(us, funits) ==
    {u \in us : /\ Filled(u.target) /\ u.state \in {TRANSLATED, FUZZY}
                /\ u.unitid \notin FileIds(funits)}

\* C11: a row with a target, TRANSLATED or FUZZY, whose id is not in the file
\* is still there, OBSOLETE, after a structural update that is not
\* conservative and after a mergefile with obsoletemissing.
VanishedKeptObsolete ==
    [][\A p \in Procs :
         /\ BodyDone(p)
         /\ \/ proc[p].op = "update" /\ proc[p].args.us /\ ~proc[p].args.cons
            \/ proc[p].op = "mergefile" /\ proc[p].args.obsmiss
         => \A u \in Vanished(units, IF proc[p].op = "update" THEN file.units
                                     ELSE proc[p].args.newfile) :
               \E v \in units' : v.unitid = u.unitid /\ v.state = OBSOLETE]_vars

\* C12: every row that has a target when mergefile is called is still there
\* with the same target when its try block is through, whatever the flags.
MergeKeepsEveryTarget ==
    [][\A p \in Procs :
         BodyDone(p) /\ proc[p].op = "mergefile"
         => \A u \in units :
               Filled(u.target) => \E v \in units' : v.unitid = u.unitid /\ v.target = u.target]_vars

\* C13: no two rows of the store that are not obsolete have the same
\* unitid_hash.
UniqueIdHash ==
    \A u, v \in units :
        u # v /\ u.state > OBSOLETE /\ v.state > OBSOLETE => u.unitid_hash # v.unitid_hash

\* C13 witness: a parse has imported a file in which two translatable units
\* have the same id
ParsedRepeatedId ==
    /\ done.op = "parse" /\ done.how = "returned"
    /\ units # {}
    /\ \E i, j \in 1..Len(file.units) :
          /\ i < j
          /\ FileIsTranslatable(file.units[i]) /\ FileIsTranslatable(file.units[j])
          /\ file.units[i].id = file.units[j].id

\* C14: the hashes of a unit are the digests of its id and of its source as
\* they are now, between a change and the save that follows it too.
HashesCurrent ==
    /\ rec.unitid_hash = md5(rec.unitid)
    /\ rec.source_hash = md5(Encoded(rec.source))

\* the positions of the file's translatable units
Translatable(funits) == {i \in 1..Len(funits) : FileIsTranslatable(funits[i])}

\* the translatable units of the file have ids all different
DistinctIds(funits) ==
    \A i, j \in Translatable(funits) : i # j => funits[i].id # funits[j].id

\* process p completes the import of a parse in this step
ParseDone(p) ==
    /\ Steps(p)
    /\ proc[p].pc = "parse_body" /\ proc'[p].pc # "parse_except"
    /\ proc[p].oldstate = STATE_NEW
    /\ DistinctIds(file.units)

\* the state is PARSED and the rows are one for each translatable unit of the
\* file, at the unit's position, and no other
ImportedAll ==
    /\ dbState' = PARSED
    /\ Cardinality(units') = Cardinality(Translatable(file.units))
    /\ \A i \in Translatable(file.units) :
          \E u \in units' : u.unitid = file.units[i].id /\ u.index = i - 1

\* C15, as stated: a parse of a NEW store whose file has N translatable units
\* of different ids ends PARSED with exactly N rows, one for each of the units
\* and indexed by its position.
ParseImportsAll == [][\A p \in Procs : ParseDone(p) => ImportedAll]_vars

\* C15, amended: the same of a NEW store that has no row when it is parsed.
ParseOfEmptyImportsAll ==
    [][\A p \in Procs : ParseDone(p) /\ units = {} => ImportedAll]_vars

\* C15 witness: a parse gave a store without rows two rows or more from a file
\* that also holds a unit which is not translatable
ParsedFromEmpty ==
    /\ done.op = "parse" /\ done.how = "returned"
    /\ hist.kind = "parse" /\ hist.empty
    /\ dbState = PARSED
    /\ Cardinality(units) >= 2
    /\ DistinctIds(file.units)
    /\ Translatable(file.units) # 1..Len(file.units)

\* C16: Unit.sync of a record with fewer target forms than nplurals into a
\* file unit with a plural leaves the file unit with the record's forms
\* followed by empty ones up to nplurals; when that is what the file unit had,
\* and note and flags agree too, it returns False and the file unit is as it
\* was.
PluralPadded ==
    uop = "sync" /\ uarg.unit.plural /\ Len(recPre.target) < nplurals
    => LET padded == recPre.target \o Blanks(nplurals - Len(recPre.target))
       IN /\ uarg.funit.target = padded
          /\ /\ padded = uarg.unit.target
             /\ uarg.unit.tnote = recPre.tcomment
             /\ uarg.unit.fuzzy = UnitIsFuzzy(recPre)
             /\ (UnitIsObsolete(recPre) => uarg.unit.obsolete)
             => ~uarg.changed /\ uarg.funit = uarg.unit

\* C17: accept_suggestion with a suggestion of the unit leaves the unit with
\* the suggestion's target and the suggestion gone, and returns True; with
\* anything else it returns False and rows and suggestions are as they were.
AcceptTakesSuggestion ==
    [][\A id \in SuggUnits, sg \in SuggInputs :
         AcceptSuggestion(id, sg)
         => IF sg \in suggs /\ sg.unitid = id
            THEN /\ uarg'.changed
                 /\ \E v \in units' : v.unitid = id /\ v.target = sg.target
                 /\ sg \notin suggs'
            ELSE /\ ~uarg'.changed
                 /\ units' = units
                 /\ suggs' = suggs]_vars

\* C17 witness: a suggestion made by mergefile has been accepted: the unit has
\* its target and another one than before
SuggestionAccepted ==
    /\ uop = "accept_suggestion" /\ uarg.changed
    /\ rec \in units
    /\ rec.target = uarg.unit.target
    /\ rec.target # recPre.target

\* C18: a row that an update has made OBSOLETE is still a row after every
\* later update against the same file.
ObsoleteRowsStay ==
    [][\A u \in units : u.state = OBSOLETE => \E v \in units' : v.unitid = u.unitid]_vars

\* C19: while no operation of either process runs, the persisted state is not
\* LOCKED.
LockNotLeftHeld == (\A p \in Procs : proc[p].pc = "idle") => dbState # LOCKED

\* C20: in any sequence of operations of one process, parse called with the
\* state PARSED or CHECKED leaves rows,
\* suggestions, findings and state as they are and imports nothing; an import
\* begins only in a store that has never been PARSED, and the persisted state
\* does not go back below PARSED, so the file is imported at most once.
ParsedOnce ==
    [][/\ \A p \in Procs :
            Steps(p) /\ proc[p].pc = "parse" /\ proc[p].mem >= PARSED
            => /\ <<units, suggs, checks, dbState>>' = <<units, suggs, checks, dbState>>
               /\ proc'[p].mem = proc[p].mem
               /\ proc'[p].pc # "parse_body"
       /\ \A p \in Procs :
            Steps(p) /\ proc'[p].pc = "parse_body" => lastState = STATE_NEW
       /\ dbState' # LOCKED => dbState' >= lastState]_vars

\* C20 witness: a parse called on a store with rows and the state PARSED or
\* CHECKED has returned
ParseOnParsedReturned ==
    /\ done.op = "parse" /\ done.how = "returned"
    /\ done.callState >= PARSED
    /\ units # {}

\* C21: a structural update deletes every row whose id the file does not hold
\* and that is not translated; a translated one it deletes when conservative
\* and makes OBSOLETE when not.
RemovedAsSpecified ==
    [][\A p \in Procs :
         BodyDone(p) /\ proc[p].op = "update" /\ proc[p].args.us
         => \A u \in units :
               u.unitid \notin FileIds(file.units)
               => IF ~UnitIsTranslated(u) \/ proc[p].args.cons
                  THEN \A v \in units' : v.unitid # u.unitid
                  ELSE \E v \in units' : v.unitid = u.unitid /\ v.state = OBSOLETE]_vars

\* C22: after Unit.update the record is fuzzy exactly when the file unit is,
\* and obsolete exactly when the file unit is, whatever its state was.
FlagsMirrored ==
    uop = "update"
    => /\ UnitIsFuzzy(rec) = uarg.unit.fuzzy
       /\ UnitIsObsolete(rec) = uarg.unit.obsolete

\* the fields of a record, the marks of what was set since the last save apart
Fields(u) == [u EXCEPT !.tu = FALSE, !.su = FALSE]

\* C23: Unit.update returns True exactly when a field of the record is not
\* what it was, and an update with the same file unit right after it returns
\* False.
UpdateReportsChange ==
    uop = "update"
    => /\ uarg.changed <=> Fields(rec) # Fields(recPre)
       /\ ~UnitUpdate(rec, uarg.unit).changed

\* C24: after Unit.sync the file unit's translator note, fuzzy flag and
\* obsolete flag are the record's, whatever they were.
SyncMirrorsFlags ==
    uop = "sync"
    => /\ uarg.funit.tnote = recPre.tcomment
       /\ uarg.funit.fuzzy = UnitIsFuzzy(recPre)
       /\ uarg.funit.obsolete = UnitIsObsolete(recPre)

\* Unit.merge reached the assignment of the incoming target
MergeReplaces ==
    /\ uop = "merge"
    /\ Truthy(uarg.unit.target)
    /\ ~Truthy(recPre.target) \/ uarg.overwrite
    /\ ~(UnitIsTranslated(recPre) /\ ~FileIsTranslated(uarg.unit))

\* C25: when Unit.merge replaces the target, the record ends fuzzy if the
\* sources differ, and otherwise exactly when the incoming unit is fuzzy.
MergeSetsFuzzy ==
    MergeReplaces
    => UnitIsFuzzy(rec) = (recPre.source # uarg.unit.source \/ uarg.unit.fuzzy)

\* C26: in mergefile a shared row with notranslate set, or translated with
\* suggestions set, keeps its target and state, and a translated incoming unit
\* with another target is a Suggestion of the row afterwards; any other shared
\* row is as Unit.merge leaves it.
SharedSuggestedOrMerged ==
    [][\A p \in Procs :
         BodyDone(p) /\ proc[p].op = "mergefile"
         => \A u \in units :
               u.unitid \in FileIds(proc[p].args.newfile)
               => LET inc == FileFind(proc[p].args.newfile, u.unitid)
                      merged == UnitMerge(u, inc, FALSE).unit
                  IN IF proc[p].args.notrans \/ (proc[p].args.sugg /\ UnitIsTranslated(u))
                     THEN /\ \E v \in units' : /\ v.unitid = u.unitid
                                               /\ v.target = u.target
                                               /\ v.state = u.state
                          /\ FileIsTranslated(inc) /\ inc.target # u.target
                             => [unitid |-> u.unitid, target |-> inc.target] \in suggs'
                     ELSE \E v \in units' : /\ v.unitid = u.unitid
                                            /\ v.target = merged.target
                                            /\ v.tcomment = merged.tcomment]_vars

\* C26 witness: a mergefile with notranslate set has left a Suggestion of an
\* untranslated row, and the row without a target
SuggestionOfUntranslated ==
    /\ done.op = "mergefile" /\ done.how = "returned"
    /\ \E u \in units : /\ ~Filled(u.target)
                        /\ \E sg \in suggs : sg.unitid = u.unitid

\* a row was added, deleted or made obsolete in this step
Structural ==
    \/ \E v \in units' : v.unitid \notin UnitIds(units)
    \/ \E u \in units : u.unitid \notin UnitIds(units')
    \/ \E u \in units, v \in units' :
          v.unitid = u.unitid /\ u.state # OBSOLETE /\ v.state = OBSOLETE

\* C27: the try block of mergefile closes with a sync exactly when a row was
\* added, deleted or made obsolete in it, and that sync is conservative.
MergeSyncsWhenStructural ==
    [][\A p \in Procs :
         BodyDone(p) /\ proc[p].op = "mergefile"
         => /\ MergeSyncs(proc[p].args) <=> Structural
            /\ MergeSyncs(proc[p].args) => MergeSyncArgs.cons]_vars

\* the rows that hold the translation c and are obsolete when a unit new in
\* the file is fuzzy translated in the update of process p: obsolete before
\* the call, or translated, gone from the file and made obsolete by the call
ObsoleteDonors(p, c) ==
    {d \in units :
        /\ Encoded(d.source) = c.source /\ Encoded(d.target) = c.target
        /\ \/ d.state = OBSOLETE
           \/ /\ UnitIsTranslated(d) /\ ~proc[p].args.cons
              /\ d.unitid \notin FileIds(file.units)}

\* C28: in one update with fuzzy matching the translation of one obsolete row
\* is given to at most one unit new in the file, and a row that gave its
\* translation is gone afterwards.
FuzzyGivesOnce ==
    [][\A p \in Procs :
         BodyDone(p) /\ proc[p].op = "update" /\ proc[p].args.fuzzy
         => LET d == proc'[p].diff
            IN /\ \A g, h \in d.gave :
                     /\ g.to \in d.added /\ h.to \in d.added
                     /\ g.to # h.to /\ g.of = h.of
                     => Cardinality(ObsoleteDonors(p, g.of)) # 1
               /\ \A g \in d.gave :
                     g.to \in d.added /\ ObsoleteDonors(p, g.of) # {}
                     => \E r \in ObsoleteDonors(p, g.of) : r.unitid \notin UnitIds(units')]_vars

\* C29: update runs the quality checks of a shared row only if it changed
\* the source or the target the record holds (its plural mark and a fuzzy
\* match included) and the store was CHECKED when it was called, and the
\* findings of no other shared row change; on a store that was PARSED it
\* creates and deletes no finding.
ChecksOnlyWhenChanged ==
    [][\A p \in Procs :
         BodyDone(p) /\ proc[p].op = "update"
         => LET d == proc'[p].diff
            IN /\ \A id \in d.redo :
                     /\ proc[p].callState = CHECKED
                     /\ id \in d.shared
                     /\ \E u \in units :
                           /\ u.unitid = id
                           /\ \/ UnitUpdate(u, FileFind(file.units, id)).unit.source # u.source
                              \/ UnitUpdate(u, FileFind(file.units, id)).unit.splural # u.splural
                              \/ UnitUpdate(u, FileFind(file.units, id)).unit.target # u.target
                              \/ \E g \in d.gave : g.to = id
               /\ \A id \in d.shared \ d.redo :
                     {c \in checks' : c.unitid = id} = {c \in checks : c.unitid = id}
               /\ proc[p].callState = PARSED => checks' = checks]_vars

\* C29 witness: an update of a CHECKED store has run the checks of a shared
\* row and left a finding that was not there before
SharedRowRechecked ==
    \E p \in Procs :
        /\ proc[p].pc = "update_finally" /\ proc[p].callState = CHECKED
        /\ \E c \in checks : c.unitid \in proc[p].diff.redo
        /\ \E u \in proc[p].preUnits : u.unitid \in proc[p].diff.redo /\ UnitChecks(u) = {}

\* the file holds the ids of the rows, not all at the rows' indexes
Reordered ==
    /\ FileIds(file.units) = UnitIds(units)
    /\ \E u \in units : u.index # FileIndex(file.units, u.unitid)

\* C30: update against a file with the ids of the store in another order
\* adds, deletes and makes obsolete no row, and with update_translation leaves
\* every row at the index of its file unit.
ReorderedKeepsRows ==
    [][\A p \in Procs :
         BodyDone(p) /\ proc[p].op = "update" /\ Reordered
         => /\ UnitIds(units') = UnitIds(units)
            /\ \A u \in units, v \in units' :
                  u.unitid = v.unitid /\ v.state = OBSOLETE => u.state = OBSOLETE
            /\ proc[p].args.ut
               => \A v \in units' : v.index = FileIndex(file.units, v.unitid)]_vars

\* process p is at the start of a conservative sync that returns because the
\* cached time of the last sync is the store's modification time
ShortCircuits(p) ==
    /\ proc[p].pc = "sync" /\ proc[p].args.cons
    /\ cacheSync # 0 /\ cacheSync = GetMtime(cacheMtime, units)
    /\ file.exists

\* C31: whenever a conservative sync returns early on the cached time of the
\* last sync, the same sync run in full would leave the file as it is.
CacheIsOptimisation ==
    \A p \in Procs :
        ShortCircuits(p)
        => SyncResult(units, file.units, suggs, proc[p].args).funits = file.units

\* C32: after a sync with update_structure has run, the file holds no
\* untranslated unit whose id no row of the store has.
SyncDropsUntranslated ==
    (hist.kind = "sync" /\ hist.a.us)
    => \A i \in DOMAIN file.units :
          (/\ FileIsTranslatable(file.units[i])
           /\ ~file.units[i].obsolete
           /\ ~FileIsTranslated(file.units[i]))
          => file.units[i].id \in UnitIds(units)

\* C33: a sync with update_structure adds no live unit to the file for a row in
\* state OBSOLETE.
SyncAddsNoObsolete ==
    [][\A p \in Procs :
          (proc[p].pc = "sync_body" /\ proc[p].args.us /\ proc'[p].pc # "sync_body")
          => \A i \in DOMAIN file'.units :
                (i > Len(file.units) /\ ~file'.units[i].obsolete)
                => UnitById(units, file'.units[i].id).state > OBSOLETE]_vars

\* C34: after a save, a record in state TRANSLATED has a form of its target
\* filled in and a record in state UNTRANSLATED has none.
SavedStateFollowsTarget ==
    uop = "save"
    => /\ rec.state = TRANSLATED => Filled(rec.target)
       /\ rec.state = UNTRANSLATED => ~Filled(rec.target)

\* a translated record whose target was emptied has been saved, and the save
\* has made it untranslated
SaveEmptied ==
    /\ uop = "save"
    /\ recPre.tu /\ recPre.state = TRANSLATED /\ ~Filled(recPre.target)
    /\ rec.state = UNTRANSLATED

\* C35: Unit.sync changes the file unit only: the record has the target forms,
\* the state and the translator comment after the call that it had before.
SyncKeepsRecord ==
    uop = "sync"
    => /\ rec.target = recPre.target
       /\ rec.state = recPre.state
       /\ rec.tcomment = recPre.tcomment

============================================================================
